---- MODULE Spec2Model ----
(***************************************************************************)
(* SEO content analyzer (src/src/pages/Index.tsx).                         *)
(*                                                                         *)
(* A string is a sequence of characters, a character a one-character       *)
(* string.  A JavaScript number that can be fractional is an exact         *)
(* rational <<n, d>> in lowest terms with d > 0 (IEEE rounding is not      *)
(* modelled); a number the code only ever makes integral is an integer.    *)
(***************************************************************************)
EXTENDS Integers, Sequences, FiniteSets, TLC

VARIABLES
    content,            \* useState('')      Index.tsx:127
    analyzed,           \* useState(false)   Index.tsx:128
    readabilityScore,   \* useState(0)       Index.tsx:129
    keywordScore,       \* useState(0)       Index.tsx:130
    structureScore,     \* useState(0)       Index.tsx:131
    wordCount,          \* useState(0)       Index.tsx:132
    suggestions,        \* useState({...})   Index.tsx:133-138
    lastEvent,          \* history: the handler that ran last
    lastText,           \* history: the content at the last Analyze that took effect
    text,               \* the argument of a direct call of an engine function
    call,               \* which engine function was called on text
    retReadability,     \* what calculateReadability(text) returned
    retKeywords,        \* what analyzeKeywords(text) returned
    retHeadings,        \* what analyzeHeadings(text) returned
    retWordCount,       \* what calculateWordCount(text) returned
    retSuggestions      \* what getSEOSuggestions(text) returned

pageVars == <<content, analyzed, readabilityScore, keywordScore, structureScore,
              wordCount, suggestions>>
histVars == <<lastEvent, lastText>>
callVars == <<text, call, retReadability, retKeywords, retHeadings, retWordCount,
              retSuggestions>>
vars == <<pageVars, histVars, callVars>>

----------------------------------------------------------------------------
(* Characters *)

\* ECMAScript WhiteSpace and LineTerminator, the class \s and what trim() strips
WhiteSpace == {" ", "\t", "\n", "\r"}
\* what the regular expression `.` does not match
LineTerminator == {"\n", "\r"}
LowerSeq == <<"a","b","c","d","e","f","g","h","i","j","k","l","m",
              "n","o","p","q","r","s","t","u","v","w","x","y","z">>
UpperSeq == <<"A","B","C","D","E","F","G","H","I","J","K","L","M",
              "N","O","P","Q","R","S","T","U","V","W","X","Y","Z">>
Lower == {LowerSeq[i] : i \in DOMAIN LowerSeq}
Upper == {UpperSeq[i] : i \in DOMAIN UpperSeq}
Digit == {"0","1","2","3","4","5","6","7","8","9"}
\* the class \w, whose edges are the word boundaries \b
WordChar == Lower \cup Upper \cup Digit \cup {"_"}

LowerOf == [c \in Upper |-> LowerSeq[CHOOSE i \in DOMAIN UpperSeq : UpperSeq[i] = c]]
toLowerCaseChar(c) == IF c \in Upper THEN LowerOf[c] ELSE c
toLowerCase(s) == [i \in 1..Len(s) |-> toLowerCaseChar(s[i])]

\* s.trim()
trim(s) ==
    IF \A i \in 1..Len(s) : s[i] \in WhiteSpace THEN <<>>
    ELSE LET lo == CHOOSE i \in 1..Len(s) :
                       s[i] \notin WhiteSpace /\ \A j \in 1..(i-1) : s[j] \in WhiteSpace
             hi == CHOOSE i \in 1..Len(s) :
                       s[i] \notin WhiteSpace /\ \A j \in (i+1)..Len(s) : s[j] \in WhiteSpace
         IN  SubSeq(s, lo, hi)

\* a split that leaves out the empty elements
splitStartsNoEmpty(s, Sep) ==
    {p \in {1} \cup {k + 1 : k \in {j \in 1..Len(s) : s[j] \in Sep}} :
        p <= Len(s) /\ s[p] \notin Sep}

\* s.split(/[Sep]+/): the index at which each element of the array starts.
\* The first element starts at 1, and one more starts after every maximal run
\* of separators; a string without separator (the empty one too) gives one.
splitStarts(s, Sep) ==
    {1} \cup {k + 1 : k \in {j \in 1..Len(s) :
                  s[j] \in Sep /\ (j = Len(s) \/ s[j+1] \notin Sep)}}
\* s.split(/[Sep]+/).length
splitLength(s, Sep) == Cardinality(splitStarts(s, Sep))
\* s.split(/[Sep]+/).filter(Boolean).length: the elements that are not ''
splitFilterLength(s, Sep) ==
    Cardinality({p \in splitStarts(s, Sep) : p <= Len(s) /\ s[p] \notin Sep})
\* s.replace(/\s+/g, '')
stripWhiteSpace(s) == SelectSeq(s, LAMBDA c : c \notin WhiteSpace)
\* s.includes(sub)
includes(s, sub) ==
    \E i \in 1..(Len(s) - Len(sub) + 1) : SubSeq(s, i, i + Len(sub) - 1) = sub

----------------------------------------------------------------------------
(* Numbers *)

RECURSIVE GCD(_, _)
GCD(a, b) == IF b = 0 THEN a ELSE GCD(b, a % b)
Abs(x) == IF x < 0 THEN -x ELSE x
Rat(n, d) == LET g == GCD(Abs(n), Abs(d))
                 s == IF d < 0 THEN -1 ELSE 1
             IN  <<s * (n \div g), s * (d \div g)>>
Num(n) == <<n, 1>>
RSub(p, q) == Rat(p[1] * q[2] - q[1] * p[2], p[2] * q[2])
RAdd(p, q) == Rat(p[1] * q[2] + q[1] * p[2], p[2] * q[2])
RMul(p, q) == Rat(p[1] * q[1], p[2] * q[2])
RDiv(p, q) == Rat(p[1] * q[2], p[2] * q[1])
RLess(p, q) == p[1] * q[2] < q[1] * p[2]
RLeq(p, q) == p[1] * q[2] <= q[1] * p[2]
MathMax(p, q) == IF RLess(p, q) THEN q ELSE p
MathMin(p, q) == IF RLess(q, p) THEN q ELSE p
\* Math.round: the nearest integer, a half rounded up
MathRound(p) == (2 * p[1] + p[2]) \div (2 * p[2])

----------------------------------------------------------------------------
(* calculateReadability, Index.tsx:12-27 *)

SentenceEnd == {".", "!", "?"}

\* the score without the lower clamp
calculateReadabilityUnclamped(t) ==
    LET words == splitLength(trim(t), WhiteSpace)
        sentences == splitLength(t, SentenceEnd)
        characters == Len(stripWhiteSpace(t))
    IN  IF sentences = 0 \/ words = 0 THEN Num(0)
        ELSE LET avgWordsPerSentence == RDiv(Num(words), Num(sentences))
                 avgCharsPerWord == RDiv(Num(characters), Num(words))
                 score == RSub(RSub(Num(100), RMul(avgWordsPerSentence, Rat(18, 10))),
                               RMul(avgCharsPerWord, Num(8)))
             IN  MathMin(Num(100), score)

calculateReadability(t) ==
    LET words == splitLength(trim(t), WhiteSpace)
        sentences == splitLength(t, SentenceEnd)
        characters == Len(stripWhiteSpace(t))
    IN  IF sentences = 0 \/ words = 0 THEN Num(0)
        ELSE LET avgWordsPerSentence == RDiv(Num(words), Num(sentences))
                 avgCharsPerWord == RDiv(Num(characters), Num(words))
                 score == RSub(RSub(Num(100), RMul(avgWordsPerSentence, Rat(18, 10))),
                               RMul(avgCharsPerWord, Num(8)))
             IN  MathMax(Num(0), MathMin(Num(100), score))

(* calculateWordCount, Index.tsx:70-72 *)
calculateWordCount(t) == splitFilterLength(trim(t), WhiteSpace)

----------------------------------------------------------------------------
(* analyzeKeywords, Index.tsx:29-52 *)

\* the end of the run of [a-z] that starts at i
RECURSIVE letterRunEnd(_, _)
letterRunEnd(s, i) ==
    IF i < Len(s) /\ s[i+1] \in Lower THEN letterRunEnd(s, i + 1) ELSE i

\* s.match(/\b[a-z]{3,}\b/g): where the matches start.  A match starts at a
\* letter that follows a non-word character (or nothing), takes the whole run
\* of letters, which must be at least 3 long, and a non-word character (or
\* nothing) must follow: a shorter take would end between two letters, where
\* there is no \b.
matchStarts(s) ==
    {i \in 1..Len(s) :
        /\ s[i] \in Lower
        /\ (i = 1 \/ s[i-1] \notin WordChar)
        /\ LET e == letterRunEnd(s, i)
           IN  e - i + 1 >= 3 /\ (e = Len(s) \/ s[e+1] \notin WordChar)}

\* s.match(/\b[a-z]{3,}\b/g) || []: the matches, left to right
matchWords(s) ==
    LET starts == matchStarts(s)
        nth(k) == CHOOSE i \in starts : Cardinality({j \in starts : j < i}) = k - 1
    IN  [k \in 1..Cardinality(starts) |-> SubSeq(s, nth(k), letterRunEnd(s, nth(k)))]

\* The names a fresh object literal {} inherits from Object.prototype that a
\* match can be equal to: of constructor, hasOwnProperty, isPrototypeOf,
\* propertyIsEnumerable, toLocaleString, toString, valueOf and the __x__ names,
\* only constructor is all lower-case letters.
ObjectPrototypeKeys == {<<"c","o","n","s","t","r","u","c","t","o","r">>}

\* a count that never finds the word it has already seen
countWordNoMerge(obj, word) ==
    Append(obj, [key |-> word, isNumber |-> word \notin ObjectPrototypeKeys, n |-> 1])

\* keywordCounts is the sequence of its own entries in Object.entries order
\* (insertion order: no key is an array index).  An entry's value is the number
\* n when isNumber, and otherwise the string
\* 'function Object() { [native code] }' followed by n times '1'.
\*   keywordCounts[word] = (keywordCounts[word] || 0) + 1
countWord(obj, word) ==
    IF \E i \in DOMAIN obj : obj[i].key = word
    THEN LET i == CHOOSE j \in DOMAIN obj : obj[j].key = word
         IN  [obj EXCEPT ![i].n = @ + 1]
    ELSE Append(obj, [key |-> word, isNumber |-> word \notin ObjectPrototypeKeys, n |-> 1])

RECURSIVE countWords(_, _)
countWords(words, obj) ==
    IF words = <<>> THEN obj ELSE countWords(Tail(words), countWord(obj, Head(words)))

\* (a, b) => b[1] - a[1], as Array.prototype.sort reads it: NaN counts as +0
sortCompare(a, b) == IF a.isNumber /\ b.isNumber THEN b.n - a.n ELSE 0

\* ECMAScript's consistent comparator, over the values being sorted
consistentComparator(entries) ==
    LET E == {entries[i] : i \in DOMAIN entries}
    IN  \A a, b, c \in E :
            /\ (sortCompare(a, b) = 0 /\ sortCompare(b, c) = 0) => sortCompare(a, c) = 0
            /\ (sortCompare(a, b) < 0 /\ sortCompare(b, c) < 0) => sortCompare(a, c) < 0
            /\ (sortCompare(a, b) > 0 /\ sortCompare(b, c) > 0) => sortCompare(a, c) > 0

\* the stable sort: each entry goes after those that compare smaller and after
\* the equal ones that came before it
stableSort(entries) ==
    LET before(i, j) == \/ sortCompare(entries[i], entries[j]) < 0
                        \/ (sortCompare(entries[i], entries[j]) = 0 /\ i < j)
        rank(j) == Cardinality({i \in DOMAIN entries : before(i, j)}) + 1
    IN  [k \in DOMAIN entries |-> entries[CHOOSE j \in DOMAIN entries : rank(j) = k]]

\* Array.prototype.sort: stable under a consistent comparator; otherwise the
\* order is implementation-defined, any permutation of the entries
sortOutcomes(entries) ==
    IF consistentComparator(entries) THEN {stableSort(entries)}
    ELSE {[k \in DOMAIN entries |-> entries[p[k]]] : p \in Permutations(DOMAIN entries)}

\* .slice(0, n)
slice(s, n) == SubSeq(s, 1, IF Len(s) < n THEN Len(s) ELSE n)

TopKeywords == 5

\* what analyzeKeywords(t) can return
analyzeKeywords(t) ==
    LET words == matchWords(toLowerCase(t))
        totalWords == Len(words)
    IN  IF totalWords = 0 THEN {[score |-> Num(0), keywords |-> <<>>]}
        ELSE LET keywordCounts == countWords(words, <<>>)
                 uniqueWordRatio == RDiv(Num(Len(keywordCounts)), Num(totalWords))
                 kwScore == MathMin(Num(100), RMul(uniqueWordRatio, Num(150)))
             IN  {[score |-> kwScore,
                   keywords |-> [k \in DOMAIN slice(sorted, TopKeywords) |-> sorted[k].key]]
                     : sorted \in sortOutcomes(keywordCounts)}

----------------------------------------------------------------------------
(* analyzeHeadings, Index.tsx:54-68 *)

\* ^ under the m flag
lineStart(s, i) == i = 1 \/ s[i-1] \in LineTerminator

\* s has sub at i, letters compared as the i flag compares them
hasAt(s, i, sub) ==
    /\ i + Len(sub) - 1 <= Len(s)
    /\ \A k \in 1..Len(sub) : toLowerCaseChar(s[i + k - 1]) = toLowerCaseChar(sub[k])

\* the top-level pattern written ^#+\s.+
markdownAtAnyHashes(s, i, min, only) ==
    /\ lineStart(s, i)
    /\ \E j \in i..Len(s) :
          /\ \A k \in i..j : s[k] = "#"
          /\ j - i + 1 >= min
          /\ j + 2 <= Len(s)
          /\ s[j+1] \in WhiteSpace
          /\ s[j+2] \notin LineTerminator

\* ^#{min,}\s.+ (and ^#\s.+ when only is TRUE) matches at i
markdownAt(s, i, min, only) ==
    /\ lineStart(s, i)
    /\ \E j \in i..Len(s) :
          /\ \A k \in i..j : s[k] = "#"
          /\ j - i + 1 >= min
          /\ only => j = i
          /\ j + 2 <= Len(s)
          /\ s[j+1] \in WhiteSpace
          /\ s[j+2] \notin LineTerminator

\* <hL[^>]*>.+<\/hM> matches at i, for some L and M in Levels
tagAt(s, i, Levels) ==
    /\ \E L \in Levels : hasAt(s, i, <<"<", "h", L>>)
    /\ \E j \in (i+3)..Len(s) :
          /\ s[j] = ">"
          /\ \A k \in (i+3)..(j-1) : s[k] # ">"
          /\ \E c \in (j+2)..Len(s) :
                /\ \A k \in (j+1)..(c-1) : s[k] \notin LineTerminator
                /\ \E M \in Levels : hasAt(s, c, <<"<", "/", "h", M, ">">>)

\* /^#\s.+|<h1[^>]*>.+<\/h1>/im
h1Pattern(s, i) == markdownAt(s, i, 1, TRUE) \/ tagAt(s, i, {"1"})
\* /^#{2,}\s.+|<h[2-6][^>]*>.+<\/h[2-6]>/gim
subheadingPattern(s, i) ==
    markdownAt(s, i, 2, FALSE) \/ tagAt(s, i, {"2", "3", "4", "5", "6"})

analyzeHeadings(t) ==
    LET hasH1 == \E i \in 1..Len(t) : h1Pattern(t, i)
        subheadingsMatch == {i \in 1..Len(t) : subheadingPattern(t, i)}
        hasSubheadings == subheadingsMatch # {}
        score == (IF hasH1 THEN 50 ELSE 0) + (IF hasSubheadings THEN 50 ELSE 0)
    IN  [score |-> score, hasH1 |-> hasH1, hasSubheadings |-> hasSubheadings]

----------------------------------------------------------------------------
(* getSEOSuggestions, Index.tsx:74-124 *)

\* A suggestion is the sequence of the strings that make up its text.
UseShorterSentences == <<"Use shorter sentences to improve readability.">>
BreakUpParagraphs == <<"Break up long paragraphs into smaller ones.">>
ReplaceIntensifiers ==
    <<"Replace generic intensifiers like \"very\" and \"really\" with more specific words.">>
IncludeMoreKeywords == <<"Include more relevant keywords throughout your content.">>
AddH1 == <<"Add a clear H1 title to your content.">>
AddSubheadings ==
    <<"Add subheadings (H2, H3) to break up your content and improve structure.">>
AddMoreContent ==
    <<"Consider adding more content. Articles with 1000+ words tend to perform better in search results.">>
ExternalLinks ==
    <<"Include external links to authoritative sources to improve credibility.">>
InternalLinks == <<"Add internal links to other relevant content on your site.">>

\* a.join(sep)
RECURSIVE join(_, _)
join(a, sep) ==
    IF a = <<>> THEN <<>>
    ELSE IF Len(a) = 1 THEN a[1]
    ELSE a[1] \o sep \o join(Tail(a), sep)

\* `Consider focusing on these keywords: ${keywords.slice(0, 3).join(', ')}.`
FocusOnKeywords(keywords) ==
    <<"Consider focusing on these keywords: ">> \o join(slice(keywords, 3), <<",", " ">>)
        \o <<".">>

Very == <<"v", "e", "r", "y">>
Really == <<"r", "e", "a", "l", "l", "y">>

\* a push that lost its if
pushAlways(list, cond, x) == Append(list, x)

\* suggestions.<category>.push(x) when cond
pushIf(list, cond, x) == IF cond THEN Append(list, x) ELSE list

MinWords == 300

\* what getSEOSuggestions(t) can return
getSEOSuggestions(t) ==
    LET words == calculateWordCount(t)
        readability == calculateReadability(t)
        headings == analyzeHeadings(t)
    IN  {[readability |->
              pushIf(pushIf(pushIf(<<>>,
                  RLess(readability, Num(50)), UseShorterSentences),
                  RLess(readability, Num(50)), BreakUpParagraphs),
                  includes(t, Very) \/ includes(t, Really), ReplaceIntensifiers),
          keywords |->
              IF Len(kw.keywords) < 3 THEN <<IncludeMoreKeywords>>
              ELSE <<FocusOnKeywords(kw.keywords)>>,
          structure |->
              pushIf(pushIf(<<>>,
                  ~headings.hasH1, AddH1),
                  ~headings.hasSubheadings, AddSubheadings),
          general |->
              Append(Append(pushIf(<<>>,
                  words < MinWords, AddMoreContent),
                  ExternalLinks),
                  InternalLinks)]
            : kw \in analyzeKeywords(t)}

----------------------------------------------------------------------------
(* SEOAnalyzer, Index.tsx:126-319 *)

NoSuggestions == [readability |-> <<>>, keywords |-> <<>>, structure |-> <<>>,
                  general |-> <<>>]

\* Math.floor in the place of Math.round
overallScoreFloor ==
    IF analyzed
    THEN LET mean == RDiv(RAdd(RAdd(readabilityScore, keywordScore), Num(structureScore)),
                          Num(3))
         IN  mean[1] \div mean[2]
    ELSE 0

\* const overallScore = analyzed ? Math.round((r + k + s) / 3) : 0
overallScore ==
    IF analyzed
    THEN MathRound(RDiv(RAdd(RAdd(readabilityScore, keywordScore), Num(structureScore)),
                        Num(3)))
    ELSE 0

\* !content.trim()
blank(s) == trim(s) = <<>>

\* onChange={(e) => setContent(e.target.value)}
setContentTo(value) ==
    /\ content' = value
    /\ lastEvent' = "edit"
    /\ UNCHANGED <<analyzed, readabilityScore, keywordScore, structureScore, wordCount,
                   suggestions, lastText, callVars>>

\* handleAnalyze without its first line
handleAnalyzeUnguarded ==
    /\ lastEvent' = "analyze"
    /\ readabilityScore' = calculateReadability(content)
    /\ \E keywords \in analyzeKeywords(content) : keywordScore' = keywords.score
    /\ structureScore' = analyzeHeadings(content).score
    /\ wordCount' = calculateWordCount(content)
    /\ suggestions' \in getSEOSuggestions(content)
    /\ analyzed' = TRUE
    /\ lastText' = content
    /\ UNCHANGED <<content, callVars>>

handleAnalyze ==
    /\ lastEvent' = "analyze"
    /\ IF blank(content)
       THEN UNCHANGED <<pageVars, lastText>>
       ELSE /\ readabilityScore' = calculateReadability(content)
            /\ \E keywords \in analyzeKeywords(content) : keywordScore' = keywords.score
            /\ structureScore' = analyzeHeadings(content).score
            /\ wordCount' = calculateWordCount(content)
            /\ suggestions' \in getSEOSuggestions(content)
            /\ analyzed' = TRUE
            /\ lastText' = content
            /\ UNCHANGED content
    /\ UNCHANGED callVars

\* Analyze New Content that also empties the text area
analyzeNewContentClearing ==
    /\ analyzed
    /\ analyzed' = FALSE
    /\ content' = <<>>
    /\ lastEvent' = "new"
    /\ UNCHANGED <<readabilityScore, keywordScore, structureScore, wordCount,
                   suggestions, lastText, callVars>>

\* onClick={() => setAnalyzed(false)}, on a button rendered only when analyzed
analyzeNewContent ==
    /\ analyzed
    /\ analyzed' = FALSE
    /\ lastEvent' = "new"
    /\ UNCHANGED <<content, readabilityScore, keywordScore, structureScore, wordCount,
                   suggestions, lastText, callVars>>

----------------------------------------------------------------------------
(* The input texts: every concatenation of at most MaxChunks               *)
(* (MaxPageChunks for the page) pieces of one palette.                       *)

MaxChunks == 3
MaxPageChunks == 2

\* MinWords one-letter words, a space after each
LongText == [i \in 1..(2 * MinWords) |-> IF i % 2 = 1 THEN "w" ELSE " "]

\* spaces, short and long words, sentence ends
ReadabilityPalette ==
    <<<<" ">>,
      <<"g", "o">>,
      <<" ", "u", "p">>,
      <<".">>,
      <<"!", "?">>,
      <<"\t", "\n">>,
      <<"e", "x", "t", "r", "a", "o", "r", "d", "i", "n", "a", "r", "y">>>>
\* repeated and single words, tokens that do not qualify
KeywordPalette ==
    <<<<"a", "n", "t", " ", "b", "e", "e", " ", "b", "e", "e", " ">>,
      <<"d", "o", "g", " ", "e", "l", "k", " ", "e", "l", "k", " ", "e", "l", "k", " ">>,
      <<"f", "o", "x", " ", "y", "a", "k", " ">>,
      <<"c", "a", "t", " ", "c", "a", "t", " ">>,
      <<"G", "n", "u", ",", "x", "_", "y", "z", " ", "a", "b", "1", " ", "g", "n", "u">>>>
\* a word that names a property every object inherits, among others
InheritedNamePalette ==
    <<<<"c", "o", "n", "s", "t", "r", "u", "c", "t", "o", "r", " ">>,
      <<"c", "a", "t", " ", "c", "a", "t", " ">>,
      <<"d", "o", "g", " ">>>>
\* markdown and HTML headings, whole and in parts
HeadingPalette ==
    <<<<"#", " ", "T">>,
      <<"#", "#", " ", "s">>,
      <<"\n">>,
      <<"<", "h", "1", ">", "x">>,
      <<"<", "/", "h", "1", ">">>,
      <<"<", "H", "2", " ", "a", ">", "y", "<", "/", "h", "3", ">">>,
      <<"#">>>>
\* one piece for each side of each rule of the suggestion table
SuggestionPalette ==
    <<<<"v", "e", "r", "y", " ">>,
      <<"c", "a", "t", " ", "d", "o", "g", " ", "f", "o", "x", " ">>,
      <<"#", " ", "T", "o", "p", " ", "R", "e", "a", "l", "l", "y", "\n">>,
      <<"#", "#", " ", "s", "u", "b", " ", "r", "e", "a", "l", "l", "y", "\n">>,
      LongText>>
\* what the user types or pastes
PagePalette ==
    <<<<" ">>,
      <<"c", "a", "t", " ", "d", "o", "g", " ", "f", "o", "x", " ">>,
      <<"#", " ", "T", "\n">>,
      <<"v", "e", "r", "y", " ", "l", "o", "n", "g", ".", "\n", "#", "#", " ", "s">>>>

\* the texts of the worked examples
Scenario1 ==
    <<"#", " ", "T", "i", "t", "l", "e", "\n", "\n", "T", "h", "i", "s", " ", "i", "s",
      " ", "a", " ", "s", "h", "o", "r", "t", " ", "s", "e", "n", "t", "e", "n", "c",
      "e", ".", " ", "T", "h", "i", "s", " ", "i", "s", " ", "a", "n", "o", "t", "h",
      "e", "r", " ", "s", "h", "o", "r", "t", " ", "s", "e", "n", "t", "e", "n", "c",
      "e", ".">>
Scenario3 ==
    <<"c", "a", "t", " ", "c", "a", "t", " ", "c", "a", "t", " ", "d", "o", "g", " ",
      "d", "o", "g", " ", "b", "i", "r", "d">>
Scenario4 ==
    <<"g", "o", " ", "u", "p", " ", "u", "p">>
ScenarioTexts == {<<>>, Scenario1, Scenario3, Scenario4}

RECURSIVE concat(_)
concat(chunks) == IF chunks = <<>> THEN <<>> ELSE Head(chunks) \o concat(Tail(chunks))

textsOf(palette, max) ==
    UNION {{concat([k \in 1..n |-> palette[c[k]]]) : c \in [1..n -> DOMAIN palette]}
              : n \in 0..max}

EngineTexts ==
    textsOf(ReadabilityPalette, MaxChunks) \cup textsOf(KeywordPalette, MaxChunks)
        \cup textsOf(InheritedNamePalette, MaxChunks)
        \cup textsOf(HeadingPalette, MaxChunks) \cup textsOf(SuggestionPalette, MaxChunks)
        \cup ScenarioTexts
PageTexts == textsOf(PagePalette, MaxPageChunks)

----------------------------------------------------------------------------
(* The page: the user edits the content, clicks Analyze, clicks Analyze New   *)
(* Content.                                                                  *)

PageInit ==
    /\ content = <<>>
    /\ analyzed = FALSE
    /\ readabilityScore = Num(0)
    /\ keywordScore = Num(0)
    /\ structureScore = 0
    /\ wordCount = 0
    /\ suggestions = NoSuggestions
    /\ lastEvent = "none"
    /\ lastText = <<>>

\* no engine function called directly
NoCall ==
    /\ call = "none"
    /\ retReadability = Num(0)
    /\ retKeywords = [score |-> Num(0), keywords |-> <<>>]
    /\ retHeadings = [score |-> 0, hasH1 |-> FALSE, hasSubheadings |-> FALSE]
    /\ retWordCount = 0
    /\ retSuggestions = NoSuggestions

Init ==
    /\ PageInit
    /\ text = <<>>
    /\ NoCall

Edit == \E value \in PageTexts : setContentTo(value)
Analyze == handleAnalyze
AnalyzeNew == analyzeNewContent

Next == Edit \/ Analyze \/ AnalyzeNew

Spec == Init /\ [][Next]_vars

----------------------------------------------------------------------------
(* The engine: one function called once on one text.                         *)

EngineInit ==
    /\ PageInit
    /\ text \in EngineTexts
    /\ NoCall

CallReadability ==
    /\ call = "none"
    /\ call' = "calculateReadability"
    /\ retReadability' = calculateReadability(text)
    /\ UNCHANGED <<text, retKeywords, retHeadings, retWordCount, retSuggestions,
                   pageVars, histVars>>

CallKeywords ==
    /\ call = "none"
    /\ call' = "analyzeKeywords"
    /\ retKeywords' \in analyzeKeywords(text)
    /\ UNCHANGED <<text, retReadability, retHeadings, retWordCount, retSuggestions,
                   pageVars, histVars>>

CallHeadings ==
    /\ call = "none"
    /\ call' = "analyzeHeadings"
    /\ retHeadings' = analyzeHeadings(text)
    /\ UNCHANGED <<text, retReadability, retKeywords, retWordCount, retSuggestions,
                   pageVars, histVars>>

CallWordCount ==
    /\ call = "none"
    /\ call' = "calculateWordCount"
    /\ retWordCount' = calculateWordCount(text)
    /\ UNCHANGED <<text, retReadability, retKeywords, retHeadings, retSuggestions,
                   pageVars, histVars>>

CallSuggestions ==
    /\ call = "none"
    /\ call' = "getSEOSuggestions"
    /\ retSuggestions' \in getSEOSuggestions(text)
    /\ UNCHANGED <<text, retReadability, retKeywords, retHeadings, retWordCount,
                   pageVars, histVars>>

EngineNext ==
    CallReadability \/ CallKeywords \/ CallHeadings \/ CallWordCount \/ CallSuggestions

SpecEngine == EngineInit /\ [][EngineNext]_vars

----------------------------------------------------------------------------
(* Properties *)

inRange(p) == RLeq(Num(0), p) /\ RLeq(p, Num(100))
\* the qualifying tokens of the call's text, left to right
tokens == matchWords(toLowerCase(text))
frequency(w) == Cardinality({i \in DOMAIN tokens : tokens[i] = w})
range(f) == {f[i] : i \in DOMAIN f}

\* C1: calculateReadability returns 0 for every text whose word count is 0,
\* the empty string among them.
C1_ZeroForNoWords ==
    (call = "calculateReadability" /\ calculateWordCount(text) = 0) => retReadability = Num(0)

\* C2: the readability score, the keyword score and the heading score of every
\* text lie in [0, 100].
C2_ScoresInRange ==
    /\ call = "calculateReadability" => inRange(retReadability)
    /\ call = "analyzeKeywords" => inRange(retKeywords.score)
    /\ call = "analyzeHeadings" => (retHeadings.score >= 0 /\ retHeadings.score <= 100)
\* a readability score the lower clamp made, and a keyword score the cap made
C2_Witness ==
    \/ /\ call = "calculateReadability" /\ retReadability = Num(0)
       /\ calculateWordCount(text) = 1
    \/ /\ call = "analyzeKeywords" /\ retKeywords.score = Num(100)
       /\ Len(tokens) > Len(retKeywords.keywords)

\* C3: the keyword list has at most 5 entries, all distinct, in non-increasing
\* frequency, each a run of at least 3 lower-case letters, and no token left
\* out occurs more often than one in the list.
C3_KeywordList ==
    call = "analyzeKeywords" =>
        LET kws == retKeywords.keywords
        IN  /\ Len(kws) <= 5
            /\ \A i, j \in DOMAIN kws : i # j => kws[i] # kws[j]
            /\ \A i, j \in DOMAIN kws : i < j => frequency(kws[i]) >= frequency(kws[j])
            /\ \A i \in DOMAIN kws :
                  Len(kws[i]) >= 3 /\ \A k \in DOMAIN kws[i] : kws[i][k] \in Lower
            /\ \A w \in range(tokens) \ range(kws) :
                  \A i \in DOMAIN kws : frequency(w) <= frequency(kws[i])

\* some line starts with '#' followed by something else than '#'
singleHashLine(t) ==
    \E i \in 1..Len(t) : lineStart(t, i) /\ t[i] = "#" /\ i < Len(t) /\ t[i+1] # "#"
\* t holds '<h1' in either case
h1Tag(t) == \E i \in 1..Len(t) : hasAt(t, i, <<"<", "h", "1">>)

\* C4: the heading score is 50 for a top-level heading plus 50 for a
\* sub-heading, so one of 0, 50, 100, and 100 exactly when both are there;
\* '# Title' and text gives (true, false, 50); without an h1 tag, only a line
\* that starts with a single '#' makes a top-level heading.
C4_HeadingScore ==
    call = "analyzeHeadings" =>
        /\ retHeadings.score = (IF retHeadings.hasH1 THEN 50 ELSE 0)
                                + (IF retHeadings.hasSubheadings THEN 50 ELSE 0)
        /\ retHeadings.score \in {0, 50, 100}
        /\ retHeadings.score = 100 <=> (retHeadings.hasH1 /\ retHeadings.hasSubheadings)
        /\ text = Scenario1 =>
              retHeadings = [score |-> 50, hasH1 |-> TRUE, hasSubheadings |-> FALSE]
        /\ (retHeadings.hasH1 /\ ~h1Tag(text)) => singleHashLine(text)
\* a text with a '##' line and no top-level heading
C4_Witness ==
    /\ call = "analyzeHeadings"
    /\ retHeadings = [score |-> 50, hasH1 |-> FALSE, hasSubheadings |-> TRUE]
    /\ includes(text, <<"#", "#", " ">>)

\* C5: with a qualifying token the keyword score is
\* min(100, 150 * distinct / total), 75 for 'cat cat cat dog dog bird'; the
\* score is 0 with an empty list exactly when there is no qualifying token.
C5_KeywordScore ==
    call = "analyzeKeywords" =>
        LET total == Len(tokens)
            distinct == Cardinality(range(tokens))
        IN  /\ total > 0 =>
                  IF 150 * distinct >= 100 * total THEN retKeywords.score = Num(100)
                  ELSE retKeywords.score[1] * total = 150 * distinct * retKeywords.score[2]
            /\ text = Scenario3 => retKeywords.score = Num(75)
            /\ (retKeywords.score = Num(0) /\ retKeywords.keywords = <<>>) <=> total = 0
            /\ retKeywords.score = Num(0) <=> total = 0
\* a repeated token lowers the score below the cap
C5_Witness ==
    /\ call = "analyzeKeywords"
    /\ RLess(Num(0), retKeywords.score) /\ RLess(retKeywords.score, Num(75))
    /\ Cardinality(range(tokens)) >= 3

\* The rule table: category, condition, suggestion, in table order.  The
\* rows on the text's readability, intensifiers, headings and word count:
textRules(t) ==
    LET low == RLess(calculateReadability(t), Num(50))
        h == analyzeHeadings(t)
    IN  <<[category |-> "readability", when |-> low, say |-> UseShorterSentences],
          [category |-> "readability", when |-> low, say |-> BreakUpParagraphs],
          [category |-> "readability",
           when |-> \E i \in 1..Len(t) :
                       \/ i + 3 <= Len(t) /\ <<t[i], t[i+1], t[i+2], t[i+3]>> = Very
                       \/ i + 5 <= Len(t)
                          /\ <<t[i], t[i+1], t[i+2], t[i+3], t[i+4], t[i+5]>> = Really,
           say |-> ReplaceIntensifiers],
          [category |-> "structure", when |-> ~h.hasH1, say |-> AddH1],
          [category |-> "structure", when |-> ~h.hasSubheadings, say |-> AddSubheadings],
          [category |-> "general", when |-> calculateWordCount(t) < 300,
           say |-> AddMoreContent],
          [category |-> "general", when |-> TRUE, say |-> ExternalLinks],
          [category |-> "general", when |-> TRUE, say |-> InternalLinks]>>
\* the rows on the keyword list:
keywordRules(keywords) ==
    <<[category |-> "keywords", when |-> Len(keywords) < 3, say |-> IncludeMoreKeywords],
      [category |-> "keywords", when |-> Len(keywords) >= 3,
       say |-> <<"Consider focusing on these keywords: ">>
                   \o (IF Len(keywords) >= 3
                       THEN keywords[1] \o <<",", " ">> \o keywords[2]
                                \o <<",", " ">> \o keywords[3]
                       ELSE <<>>)
                   \o <<".">>]>>

\* the suggestions of the rows of one category whose condition holds
fired(table, category) ==
    LET rows == SelectSeq(table, LAMBDA r : r.category = category /\ r.when)
    IN  [k \in DOMAIN rows |-> rows[k].say]

\* C6: getSEOSuggestions returns, in each category, the suggestions of the
\* rule table whose conditions hold on the engine's results for the text, in
\* table order and nothing else; the keywords category has exactly one entry
\* and the general category ends with the external then the internal links.
C6_RuleTable ==
    call = "getSEOSuggestions" =>
        /\ LET table == textRules(text)
           IN  \A c \in {"readability", "structure", "general"} :
                   retSuggestions[c] = fired(table, c)
        /\ \E kw \in analyzeKeywords(text) :
              retSuggestions.keywords = fired(keywordRules(kw.keywords), "keywords")
        /\ DOMAIN retSuggestions = {"readability", "keywords", "structure", "general"}
        /\ Len(retSuggestions.keywords) = 1
        /\ Len(retSuggestions.general) >= 2
        /\ SubSeq(retSuggestions.general, Len(retSuggestions.general) - 1,
                  Len(retSuggestions.general)) = <<ExternalLinks, InternalLinks>>
\* a long, well-structured text: no suggestion but the links and the keywords
C6_Witness ==
    /\ call = "getSEOSuggestions"
    /\ retSuggestions.general = <<ExternalLinks, InternalLinks>>
    /\ retSuggestions.structure = <<>>
    /\ retSuggestions.readability = <<UseShorterSentences, BreakUpParagraphs, ReplaceIntensifiers>>
    /\ retSuggestions.keywords # <<IncludeMoreKeywords>>


\* the mean of the three stored scores, a rational
storedMean == RDiv(RAdd(RAdd(readabilityScore, keywordScore), Num(structureScore)), Num(3))

\* C7: the overall score is 0 while not analyzed and then the mean of the
\* stored readability, keyword and structure scores rounded to the nearest
\* integer; it is always an integer in [0, 100].
C7_OverallScore ==
    /\ overallScore \in 0..100
    /\ ~analyzed => overallScore = 0
    /\ analyzed =>
          \* |overallScore - mean| <= 1/2
          /\ RLeq(RSub(Num(overallScore), storedMean), Rat(1, 2))
          /\ RLeq(RSub(storedMean, Num(overallScore)), Rat(1, 2))
\* a mean whose fraction is a half or more, so that rounding goes up
C7_Witness ==
    /\ analyzed
    /\ RLess(Num(overallScore), storedMean) = FALSE
    /\ Num(overallScore) # storedMean

\* the formula 100 - 1.8 * words / sentences - 8 * chars / words, as
\* numerator and denominator, for words, sentences >= 1
formulaNum(w, s, c) == 500 * s * w - 9 * w * w - 40 * c * s
formulaDen(w, s) == 5 * s * w

\* C8: the word count and the sentence count calculateReadability computes are
\* at least 1 for every text (1 sentence when there is no '.', '!' or '?'), so
\* the zero guard never decides and no divisor is 0; the result is the formula
\* clamped to [0, 100], for 3 words without terminal punctuation too.
C8_CountsAtLeastOne ==
    call = "calculateReadability" =>
        LET w == splitLength(trim(text), WhiteSpace)
            s == splitLength(text, SentenceEnd)
            c == Cardinality({i \in 1..Len(text) : text[i] \notin WhiteSpace})
        IN  /\ w >= 1
            /\ s >= 1
            /\ (\A i \in 1..Len(text) : text[i] \notin SentenceEnd) => s = 1
            /\ IF formulaNum(w, s, c) <= 0 THEN retReadability = Num(0)
               ELSE IF formulaNum(w, s, c) >= 100 * formulaDen(w, s)
                    THEN retReadability = Num(100)
               ELSE retReadability[1] * formulaDen(w, s)
                        = formulaNum(w, s, c) * retReadability[2]
\* 'go up up': 100 - 1.8 * 3 - 8 * 6 / 3 = 78.6
C8_Witness ==
    /\ call = "calculateReadability"
    /\ text = Scenario4
    /\ calculateWordCount(text) = 3
    /\ retReadability = <<393, 5>>

\* C9: when analyzed, the stored scores, word count and suggestions are the
\* engine's results for one text, the content at the last Analyze that took
\* effect, and that text is not blank; the engine never ran on blank content.
C9_StoredResults ==
    /\ analyzed =>
          /\ readabilityScore = calculateReadability(lastText)
          /\ \E kw \in analyzeKeywords(lastText) : keywordScore = kw.score
          /\ structureScore = analyzeHeadings(lastText).score
          /\ wordCount = calculateWordCount(lastText)
          /\ suggestions \in getSEOSuggestions(lastText)
          /\ wordCount >= 1
    /\ lastText # <<>> => ~blank(lastText)
    /\ lastText = <<>> =>
          /\ ~analyzed
          /\ <<readabilityScore, keywordScore, structureScore, wordCount, suggestions>>
                = <<Num(0), Num(0), 0, 0, NoSuggestions>>
\* results on show for a text the user has since replaced by a blank one
C9_Witness ==
    /\ analyzed
    /\ lastEvent = "analyze"
    /\ blank(content)
    /\ wordCount >= 3

stored == <<readabilityScore, keywordScore, structureScore, wordCount, suggestions>>

\* C10: only an Analyze on non-blank content changes the stored results;
\* Analyze on blank content changes nothing, an edit changes only the content,
\* Analyze New Content only sets analyzed to false.
C10_Frame ==
    [][/\ (lastEvent' = "analyze" /\ blank(content)) => UNCHANGED pageVars
       /\ lastEvent' = "edit" => UNCHANGED <<analyzed, stored>>
       /\ lastEvent' = "new" => (~analyzed' /\ UNCHANGED <<content, stored>>)
       /\ stored' # stored => (lastEvent' = "analyze" /\ ~blank(content))
       /\ lastEvent' \in {"analyze", "edit", "new"}]_vars
\* after an edit, the results on show belong to an earlier text
C10_Witness ==
    /\ analyzed
    /\ lastEvent = "edit"
    /\ content # lastText
    /\ ~blank(content)

====
